---- MODULE Spec2Model ----
(***************************************************************************)
(* Hostel allocation backend: the Room ledger (models/Room.js), the        *)
(* Application record (models/Application.js), the User room pointer       *)
(* (models/User.js) and the request handlers that move them                *)
(* (routes/rooms.js, routes/hostels.js, routes/applications.js).           *)
(*                                                                         *)
(* Views of the same store:                                                *)
(*   Spec           every request runs to completion before the next       *)
(*                  starts and every store write succeeds.                 *)
(*   SpecFaults     as Spec, and a store write may fail: the handler's     *)
(*                  catch block answers 500 and nothing is rolled back.    *)
(*   SpecDeletes    assignment, removal and the room and hostel deletes,   *)
(*                  with failing writes.                                   *)
(*   SpecApps       the submit request with every input.                   *)
(*   SpecReview     the review, update and delete requests.                *)
(*   SpecFrame      as SpecReview: updates with reviewComments.            *)
(*   SpecAssigned   plain submits, assignment, removal, delete.            *)
(*   SpecReviewed   plain submits, review, assignment, removal.            *)
(*   SpecRoomAdmin  room and profile updates between assignments.          *)
(*   SpecRoomCreate room creation and update between assignments.          *)
(*   SpecRoom       the Room methods called directly on one document.      *)
(*   SpecConc       two assignment requests interleave at their calls      *)
(*                  (each await is one step); a document save sends only   *)
(*                  the paths the handler modified.                        *)
(*   SpecSubmitConc two submit requests interleave at their store calls.   *)
(*   SpecReviewConc two review requests interleave at their store calls.   *)
(***************************************************************************)
EXTENDS Integers, Sequences, FiniteSets, TLC

\* ------------------------------------------------------------------ bounds
\* Largest capacity a room of the model is created with (the schema allows 1..4).
MaxCapacity == 2
\* How many store writes may fail in one behaviour.
MaxFaults == 1
\* How many application records may be created in one behaviour.
MaxApps == 2
\* How many application records may be created in one behaviour of SpecReview.
MaxReviewed == 1
\* The capacity of the room the Room methods are called on in SpecRoom.
MaxBeds == 3

\* The smallest capacity the Room schema accepts.
MinCapacity == 1
\* The largest capacity the Room schema accepts.
SchemaMaxCapacity == 4

\* ------------------------------------------------------------- identifiers
Students == {"s1", "s2", "s3"}
\* The students who file applications.
Applicants == {"s1", "s2"}
\* An id that names no User document.
GhostUser == "s9"
\* A request field that is absent (undefined) or empty.
Missing == "missing"
\* A null / unset reference.
NoRoom == "noroom"
NoUser == "nouser"
AdminId == "admin"
\* A second admin.
OtherAdminId == "admin2"
RoomIds == {"r1", "r2"}
HostelIds == {"h1"}
AppIds == 1..MaxApps
\* A request without applicationId.
NoApp == 0
Genders == {"male", "female"}
Semesters == {"first", "second"}
Statuses == {"pending", "approved", "rejected", "assigned"}
Year == "2024/2025"
Procs == {"p1", "p2"}

\* ---------------------------------------------------------------- messages
MsgIdsRequired == "Student ID and Room ID are required"
MsgStudentIdRequired == "Student ID is required"
MsgStudentNotFound == "Student not found"
MsgAlreadyAssigned == "Student is already assigned to a room"
MsgRoomNotFound == "Room not found"
MsgRoomNotAvailable == "Room is not available"
MsgGenderMismatch == "Student gender does not match room gender"
MsgAssigned == "Student assigned to room successfully"
MsgNotInRoom == "Student not found in this room"
MsgRemoved == "Student removed from room successfully"
MsgRoomHasOccupants == "Cannot delete room with occupants"
MsgRoomDeleted == "Room deleted successfully"
MsgDeleteRoomFailed == "Failed to delete room"
MsgHostelNotFound == "Hostel not found"
MsgHostelOccupied == "Cannot delete hostel with occupied rooms"
MsgHostelDeleted == "Hostel deleted successfully"
MsgDeleteHostelFailed == "Failed to delete hostel"
MsgDuplicateApplication == "You already have an application for this academic year and semester"
MsgHoldsRoom == "You are already assigned to a room"
MsgValidation == "Validation error"
MsgSubmitted == "Application submitted successfully"
MsgAppNotFound == "Application not found"
MsgOnlyPendingApproved == "Only pending applications can be approved"
MsgOnlyPendingRejected == "Only pending applications can be rejected"
MsgReasonRequired == "Rejection reason is required"
MsgApproved == "Application approved successfully"
MsgRejected == "Application rejected successfully"
MsgApproveFailed == "Failed to approve application"
MsgRejectFailed == "Failed to reject application"
MsgAccessDenied == "Access denied"
MsgOnlyPendingUpdated == "Only pending applications can be updated"
MsgOnlyPendingDeleted == "Only pending applications can be deleted"
MsgAppUpdated == "Application updated successfully"
MsgAppDeleted == "Application deleted successfully"
MsgUpdateFailed == "Failed to update application"
MsgDeleteAppFailed == "Failed to delete application"
MsgRoomCreated == "Room created successfully"
MsgRoomNumberExists == "Room number already exists in this hostel"
MsgCreateRoomFailed == "Failed to create room"
MsgRoomUpdated == "Room updated successfully"
MsgUpdateRoomFailed == "Failed to update room"
MsgProfileUpdated == "Profile updated successfully"
\* error.message of a failed store call
MsgStoreError == "store error"

VARIABLES
  rooms,     \* Room collection: RoomIds -> Room document (exists = FALSE once deleted)
  users,     \* User collection: Students -> [gender, roomAssigned]
  apps,      \* Application collection: AppIds -> Application document
  hostels,   \* Hostel collection: HostelIds -> [exists]
  nextApp,   \* the id the next created Application gets (ids are never reused)
  faults,    \* store writes that have failed so far
  last,      \* the last completed request: [op, code, msg]
  held,      \* history: the room of each student's last answered-200 assignment,
             \* until the student is taken out of that room's occupants
  procs      \* SpecConc: the two interleaved assignment requests (position, arguments,
             \* loaded copies, reply code)

vars == <<rooms, users, apps, hostels, nextApp, faults, last, held, procs>>

\* ------------------------------------------------------------- documents
Reply(code, msg) == [code |-> code, msg |-> msg]

\* models/Room.js, the fields the handlers read or write.
NewRoom(h, cap, g, active) ==
  [exists |-> TRUE, hostel |-> h, capacity |-> cap, gender |-> g, isActive |-> active,
   occupiedBeds |-> 0, occupants |-> <<>>]

\* What findById answers for a deleted Room: no document.
NoRoomDoc ==
  [exists |-> FALSE, hostel |-> "h1", capacity |-> 1, gender |-> "male", isActive |-> FALSE,
   occupiedBeds |-> 0, occupants |-> <<>>]

\* A text as the sequence of its characters; a field that is undefined has
\* given = FALSE.
NoComments == [given |-> FALSE, text |-> <<>>]
Text(chars) == [given |-> TRUE, text |-> chars]

\* models/Application.js: a slot that holds no Application (none created in it
\* yet, or the one created was deleted).
NoAppDoc ==
  [exists |-> FALSE, student |-> NoUser, academicYear |-> Year, semester |-> "first",
   status |-> "pending", assignedRoom |-> NoRoom, reviewedBy |-> NoUser,
   reviewedAt |-> FALSE, reviewComments |-> NoComments]

\* Request bodies of POST /applications/submit: the fields besides the form data
\* that a body may carry (absent fields take the schema defaults).
Bodies ==
  { [status |-> "pending", assignedRoom |-> NoRoom, reviewedBy |-> NoUser,
     reviewedAt |-> FALSE, reviewComments |-> NoComments],
    [status |-> "approved", assignedRoom |-> NoRoom, reviewedBy |-> AdminId,
     reviewedAt |-> TRUE, reviewComments |-> NoComments],
    [status |-> "pending", assignedRoom |-> "r1", reviewedBy |-> AdminId,
     reviewedAt |-> TRUE, reviewComments |-> NoComments] }

\* The body of a submit that carries the form data only.
PlainBody ==
  [status |-> "pending", assignedRoom |-> NoRoom, reviewedBy |-> NoUser,
   reviewedAt |-> FALSE, reviewComments |-> NoComments]

\* A request that has not arrived yet. An interleaved request keeps its
\* arguments (student, room, app, semester, kind, caller, comments), the copies
\* it loaded (studentDoc, roomDoc, appDoc), whether it passed its findOne
\* pre-check, and its reply code.
IdleProc ==
  [pc |-> "idle", student |-> Missing, room |-> Missing, app |-> NoApp, code |-> 0,
   studentDoc |-> [gender |-> "male", roomAssigned |-> NoRoom], roomDoc |-> NoRoomDoc,
   semester |-> Missing, kind |-> Missing, caller |-> NoUser, comments |-> NoComments,
   precheck |-> FALSE, appDoc |-> NoAppDoc]

\* The registered students are three men; room r1 is created for men, room r2 for
\* either gender, active or not (POST /rooms stores the body it is given).
UserGender(s) == "male"

\* ------------------------------------------------------------ Room methods
isAvailableOffByOne(room) == room.occupiedBeds <= room.capacity /\ room.isActive

\* roomSchema.methods.isAvailable
isAvailable(room) == room.occupiedBeds < room.capacity /\ room.isActive

\* roomSchema.methods.assignStudent, up to its save(): the document as modified in
\* memory, or the thrown error.
assignStudent(room, studentId) ==
  IF ~isAvailable(room)
  THEN [ok |-> FALSE, err |-> MsgRoomNotAvailable, room |-> room]
  ELSE [ok |-> TRUE, err |-> "",
        room |-> [room EXCEPT
                    !.occupants = Append(@, [student |-> studentId,
                                            bedNumber |-> room.occupiedBeds + 1]),
                    !.occupiedBeds = @ + 1]]

findIndexFirst(occ, studentId) == IF Len(occ) > 0 THEN 1 ELSE 0

\* occupants.findIndex(...): the first index holding studentId, 0 for -1.
RECURSIVE FindIndexFrom(_, _, _)
FindIndexFrom(occ, studentId, i) ==
  IF i > Len(occ) THEN 0
  ELSE IF occ[i].student = studentId THEN i
  ELSE FindIndexFrom(occ, studentId, i + 1)

findIndex(occ, studentId) == FindIndexFrom(occ, studentId, 1)

SpliceLast(occ, i) == SubSeq(occ, 1, Len(occ) - 1)

\* occupants.splice(i, 1)
Splice(occ, i) == [j \in 1..(Len(occ) - 1) |-> IF j < i THEN occ[j] ELSE occ[j + 1]]

RenumberNot(occ) == occ

\* occupants.forEach((occupant, index) => occupant.bedNumber = index + 1)
Renumber(occ) == [j \in 1..Len(occ) |-> [occ[j] EXCEPT !.bedNumber = j]]

removeStudentLenient(room, studentId) ==
  LET i == findIndex(room.occupants, studentId) IN
  IF i = 0
  THEN [ok |-> TRUE, err |-> "", room |-> room]
  ELSE [ok |-> TRUE, err |-> "",
        room |-> [room EXCEPT !.occupants = Renumber(Splice(@, i)),
                              !.occupiedBeds = @ - 1]]

removeStudentNoDecrement(room, studentId) ==
  LET i == findIndex(room.occupants, studentId) IN
  IF i = 0
  THEN [ok |-> FALSE, err |-> MsgNotInRoom, room |-> room]
  ELSE [ok |-> TRUE, err |-> "",
        room |-> [room EXCEPT !.occupants = Renumber(Splice(@, i))]]

\* roomSchema.methods.removeStudent, up to its save()
removeStudent(room, studentId) ==
  LET i == findIndex(room.occupants, studentId) IN
  IF i = 0
  THEN [ok |-> FALSE, err |-> MsgNotInRoom, room |-> room]
  ELSE [ok |-> TRUE, err |-> "",
        room |-> [room EXCEPT !.occupants = Renumber(Splice(@, i)),
                              !.occupiedBeds = @ - 1]]

\* ----------------------------------------------------- Application methods
\* String.prototype.trim on a text of blanks and letters.
RECURSIVE TrimStart(_)
TrimStart(chars) ==
  IF chars = <<>> THEN chars
  ELSE IF Head(chars) = " " THEN TrimStart(Tail(chars))
  ELSE chars

RECURSIVE TrimEnd(_)
TrimEnd(chars) ==
  IF chars = <<>> THEN chars
  ELSE IF chars[Len(chars)] = " " THEN TrimEnd(SubSeq(chars, 1, Len(chars) - 1))
  ELSE chars

trim(chars) == TrimEnd(TrimStart(chars))

\* The comments parameter of approve and reject: "" when the argument is undefined.
DefaultComments(comments) == IF comments.given THEN comments ELSE Text(<<>>)

\* applicationSchema.methods.approve, up to its save()
approve(app, adminId, comments) ==
  [app EXCEPT !.status = "approved", !.reviewedBy = adminId, !.reviewedAt = TRUE,
              !.reviewComments = Text(trim(DefaultComments(comments).text))]

\* applicationSchema.methods.reject, up to its save()
reject(app, adminId, comments) ==
  [app EXCEPT !.status = "rejected", !.reviewedBy = adminId, !.reviewedAt = TRUE,
              !.reviewComments = Text(trim(DefaultComments(comments).text))]

\* applicationSchema.methods.assignRoom, up to its save()
assignRoom(app, roomId) == [app EXCEPT !.status = "assigned", !.assignedRoom = roomId]

\* ------------------------------------------------------------------- Init
Init ==
  /\ \E cap \in 1..MaxCapacity, g \in Genders, active \in BOOLEAN :
       rooms = [r \in RoomIds |->
                  IF r = "r1" THEN NewRoom("h1", cap, "male", TRUE)
                  ELSE NewRoom("h1", MinCapacity, g, active)]
  /\ users = [s \in Students |-> [gender |-> UserGender(s), roomAssigned |-> NoRoom]]
  /\ apps = [a \in AppIds |-> NoAppDoc]
  /\ hostels = [h \in HostelIds |-> [exists |-> TRUE]]
  /\ nextApp = 1
  /\ faults = 0
  /\ last = [op |-> "none", code |-> 0, msg |-> ""]
  /\ held = [s \in Students |-> NoRoom]
  /\ procs = [p \in Procs |-> IdleProc]

\* ------------------------------------------------------ POST /rooms/assign
UserExists(s) == s \in DOMAIN users
RoomExists(r) == r \in DOMAIN rooms /\ rooms[r].exists
AppExists(a) == a \in DOMAIN apps /\ apps[a].exists

GenderMatchesAlways(student, room) == TRUE

\* student.gender !== room.gender, negated
GenderMatches(student, room) == student.gender = room.gender

Unassigned(student) == student.roomAssigned = NoRoom

\* The checks of the handler in their order: the reply of the first one that
\* fails, code 0 when all pass.
AssignCheck(s, r) ==
  IF s = Missing \/ r = Missing THEN Reply(400, MsgIdsRequired)
  ELSE IF ~UserExists(s) THEN Reply(404, MsgStudentNotFound)
  ELSE IF ~Unassigned(users[s]) THEN Reply(400, MsgAlreadyAssigned)
  ELSE IF ~RoomExists(r) THEN Reply(404, MsgRoomNotFound)
  ELSE IF ~isAvailable(rooms[r]) THEN Reply(400, MsgRoomNotAvailable)
  ELSE IF ~GenderMatches(users[s], rooms[r]) THEN Reply(400, MsgGenderMismatch)
  ELSE Reply(0, "")

\* The outcome of a request as a record: the three collections after it, the
\* reply, and whether a store write failed.
Outcome(rs, us, as, code, msg, fault) ==
  [rooms |-> rs, users |-> us, apps |-> as, code |-> code, msg |-> msg, fault |-> fault]

\* Steps 4..6 with a compensating rollback: a failed write undoes the earlier ones.
AssignWritesRollback(s, r, a, f) ==
  LET res == assignStudent(rooms[r], s)
      rs == [rooms EXCEPT ![r] = res.room]
      us == [users EXCEPT ![s].roomAssigned = r]
      as == [apps EXCEPT ![a] = assignRoom(@, r)]
  IN
  IF ~res.ok THEN Outcome(rooms, users, apps, 500, res.err, FALSE)
  ELSE IF f \in {"room", "user"} THEN Outcome(rooms, users, apps, 500, MsgStoreError, TRUE)
  ELSE IF a # NoApp /\ AppExists(a)
    THEN IF f = "app" THEN Outcome(rooms, users, apps, 500, MsgStoreError, TRUE)
         ELSE Outcome(rs, us, as, 200, MsgAssigned, FALSE)
  ELSE Outcome(rs, us, apps, 200, MsgAssigned, FALSE)

\* Steps 4..6 of the handler: room.assignStudent(studentId), student.save(),
\* application.assignRoom(roomId), each awaited, all inside one try block whose
\* catch answers 500 with error.message. f names the store write that fails.
AssignWrites(s, r, a, f) ==
  LET res == assignStudent(rooms[r], s)
      rs == [rooms EXCEPT ![r] = res.room]
      us == [users EXCEPT ![s].roomAssigned = r]
      as == [apps EXCEPT ![a] = assignRoom(@, r)]
  IN
  IF ~res.ok THEN Outcome(rooms, users, apps, 500, res.err, FALSE)
  ELSE IF f = "room" THEN Outcome(rooms, users, apps, 500, MsgStoreError, TRUE)
  ELSE IF f = "user" THEN Outcome(rs, users, apps, 500, MsgStoreError, TRUE)
  ELSE IF a # NoApp /\ AppExists(a)
    THEN IF f = "app" THEN Outcome(rs, us, apps, 500, MsgStoreError, TRUE)
         ELSE Outcome(rs, us, as, 200, MsgAssigned, FALSE)
  ELSE Outcome(rs, us, apps, 200, MsgAssigned, FALSE)

\* The handler with the gender check moved behind the room write.
AssignOutcomeLateGender(s, r, a, f) ==
  LET chk == AssignCheck(s, r) IN
  IF chk.code = 0 THEN AssignWrites(s, r, a, f)
  ELSE IF chk.msg = MsgGenderMismatch
    THEN Outcome([rooms EXCEPT ![r] = assignStudent(@, s).room], users, apps,
                 chk.code, chk.msg, FALSE)
  ELSE Outcome(rooms, users, apps, chk.code, chk.msg, FALSE)

\* router.post("/assign", ...)
AssignOutcome(s, r, a, f) ==
  LET chk == AssignCheck(s, r) IN
  IF chk.code = 0 THEN AssignWrites(s, r, a, f)
  ELSE Outcome(rooms, users, apps, chk.code, chk.msg, FALSE)

StudentArgs == Students \cup {GhostUser, Missing}
RoomArgs == RoomIds \cup {Missing}
AppArgs == AppIds \cup {NoApp}
WriteFaults == {"none", "room", "user", "app"}

Idle == \A p \in Procs : procs[p].pc = "idle"

Assign(s, r, a, f) ==
  LET out == AssignOutcome(s, r, a, f) IN
  /\ Idle
  /\ f # "none" => faults < MaxFaults /\ out.fault
  /\ rooms' = out.rooms
  /\ users' = out.users
  /\ apps' = out.apps
  /\ faults' = IF out.fault THEN faults + 1 ELSE faults
  /\ last' = [op |-> "assign", code |-> out.code, msg |-> out.msg]
  /\ held' = IF out.code = 200 THEN [held EXCEPT ![s] = r] ELSE held
  /\ UNCHANGED <<hostels, nextApp, procs>>

\* ------------------------------------------- POST /rooms/:id/remove-student
KeepRoomAssigned(user) == user

\* student.roomAssigned = null
ClearRoomAssigned(user) == [user EXCEPT !.roomAssigned = NoRoom]

ResetApplicationsAnyStudent(as, s, r) ==
  [a \in DOMAIN as |->
     IF as[a].exists /\ as[a].assignedRoom = r
     THEN [as[a] EXCEPT !.assignedRoom = NoRoom, !.status = "approved"]
     ELSE as[a]]

\* Application.updateMany({student, assignedRoom: room._id},
\*                        {$unset: {assignedRoom: 1}, status: "approved"})
ResetApplications(as, s, r) ==
  [a \in DOMAIN as |->
     IF as[a].exists /\ as[a].student = s /\ as[a].assignedRoom = r
     THEN [as[a] EXCEPT !.assignedRoom = NoRoom, !.status = "approved"]
     ELSE as[a]]

\* router.post("/:id/remove-student", ...): r is the path parameter, s the body's
\* studentId, f the store write that fails.
RemoveOutcome(s, r, f) ==
  IF s = Missing THEN Outcome(rooms, users, apps, 400, MsgStudentIdRequired, FALSE)
  ELSE IF ~RoomExists(r) THEN Outcome(rooms, users, apps, 404, MsgRoomNotFound, FALSE)
  ELSE
    LET res == removeStudent(rooms[r], s)
        rs == [rooms EXCEPT ![r] = res.room]
        us == IF UserExists(s) THEN [users EXCEPT ![s] = ClearRoomAssigned(@)] ELSE users
        as == ResetApplications(apps, s, r)
    IN
    IF ~res.ok THEN Outcome(rooms, users, apps, 500, res.err, FALSE)
    ELSE IF f = "room" THEN Outcome(rooms, users, apps, 500, MsgStoreError, TRUE)
    ELSE IF f = "user" /\ UserExists(s) THEN Outcome(rs, users, apps, 500, MsgStoreError, TRUE)
    ELSE IF f = "app" THEN Outcome(rs, us, apps, 500, MsgStoreError, TRUE)
    ELSE Outcome(rs, us, as, 200, MsgRemoved, FALSE)

RemoveStudent(s, r, f) ==
  LET out == RemoveOutcome(s, r, f) IN
  /\ Idle
  /\ f # "none" => faults < MaxFaults /\ out.fault
  /\ rooms' = out.rooms
  /\ users' = out.users
  /\ apps' = out.apps
  /\ faults' = IF out.fault THEN faults + 1 ELSE faults
  /\ last' = [op |-> "remove", code |-> out.code, msg |-> out.msg]
  /\ held' = IF s \in Students /\ held[s] = r /\ out.rooms # rooms
             THEN [held EXCEPT ![s] = NoRoom] ELSE held
  /\ UNCHANGED <<hostels, nextApp, procs>>

\* ---------------------------------------------------- DELETE /rooms/:id
\* router.delete("/:id", ...) of the rooms router
DeleteRoom(r, f) ==
  LET reply == IF ~RoomExists(r) THEN Reply(404, MsgRoomNotFound)
               ELSE IF rooms[r].occupiedBeds > 0 THEN Reply(400, MsgRoomHasOccupants)
               ELSE IF f = "room" THEN Reply(500, MsgDeleteRoomFailed)
               ELSE Reply(200, MsgRoomDeleted)
  IN
  /\ Idle
  /\ f \in {"none", "room"}
  /\ f # "none" => faults < MaxFaults /\ reply.code = 500
  /\ rooms' = IF reply.code = 200 THEN [rooms EXCEPT ![r] = NoRoomDoc] ELSE rooms
  /\ faults' = IF reply.code = 500 THEN faults + 1 ELSE faults
  /\ last' = [op |-> "deleteRoom", code |-> reply.code, msg |-> reply.msg]
  /\ UNCHANGED <<users, apps, hostels, nextApp, held, procs>>

\* --------------------------------------------------- DELETE /hostels/:id
\* Room.countDocuments({hostel, occupiedBeds: {$gt: 0}})
OccupiedRooms(h) ==
  Cardinality({r \in RoomIds : rooms[r].exists /\ rooms[r].hostel = h
                                /\ rooms[r].occupiedBeds > 0})

\* Room.deleteMany({hostel})
DeleteRoomsOf(h) ==
  [r \in RoomIds |-> IF rooms[r].exists /\ rooms[r].hostel = h THEN NoRoomDoc ELSE rooms[r]]

\* router.delete("/:id", ...) of the hostels router; f = "room" fails deleteMany,
\* f = "hostel" fails the hostel's own delete after the rooms are gone.
DeleteHostel(h, f) ==
  LET reply == IF ~hostels[h].exists THEN Reply(404, MsgHostelNotFound)
               ELSE IF OccupiedRooms(h) > 0 THEN Reply(400, MsgHostelOccupied)
               ELSE IF f \in {"room", "hostel"} THEN Reply(500, MsgDeleteHostelFailed)
               ELSE Reply(200, MsgHostelDeleted)
      roomsGone == reply.code = 200 \/ (reply.code = 500 /\ f = "hostel")
  IN
  /\ Idle
  /\ f \in {"none", "room", "hostel"}
  /\ f # "none" => faults < MaxFaults /\ reply.code = 500
  /\ rooms' = IF roomsGone THEN DeleteRoomsOf(h) ELSE rooms
  /\ hostels' = IF reply.code = 200 THEN [hostels EXCEPT ![h].exists = FALSE] ELSE hostels
  /\ faults' = IF reply.code = 500 THEN faults + 1 ELSE faults
  /\ last' = [op |-> "deleteHostel", code |-> reply.code, msg |-> reply.msg]
  /\ UNCHANGED <<users, apps, nextApp, held, procs>>

\* ------------------------------------------- POST /applications/submit
\* Application.findOne({student, academicYear, semester})
HasApplicationAnySemester(s, year, sem) ==
  \E a \in AppIds : apps[a].exists /\ apps[a].student = s /\ apps[a].academicYear = year

HasApplication(s, year, sem) ==
  \E a \in AppIds : /\ apps[a].exists /\ apps[a].student = s
                     /\ apps[a].academicYear = year /\ apps[a].semester = sem

\* The reviewComments path as stored: the schema's trim setter runs on the value.
StoredComments(comments) ==
  IF comments.given THEN Text(trim(comments.text)) ELSE comments

\* new Application({...req.body, student: req.user._id})
NewApplication(s, year, sem, body) ==
  [exists |-> TRUE, student |-> s, academicYear |-> year, semester |-> sem,
   status |-> body.status, assignedRoom |-> body.assignedRoom,
   reviewedBy |-> body.reviewedBy, reviewedAt |-> body.reviewedAt,
   reviewComments |-> StoredComments(body.reviewComments)]

\* router.post("/submit", ...): s is the authenticated student, valid whether the
\* body passes the schema's validators on save().
Submit(s, sem, body, valid) ==
  LET reply == IF HasApplication(s, Year, sem) THEN Reply(400, MsgDuplicateApplication)
               ELSE IF ~Unassigned(users[s]) THEN Reply(400, MsgHoldsRoom)
               ELSE IF ~valid THEN Reply(400, MsgValidation)
               ELSE Reply(201, MsgSubmitted)
  IN
  /\ Idle
  /\ nextApp <= MaxApps
  /\ apps' = IF reply.code = 201
             THEN [apps EXCEPT ![nextApp] = NewApplication(s, Year, sem, body)]
             ELSE apps
  /\ nextApp' = IF reply.code = 201 THEN nextApp + 1 ELSE nextApp
  /\ last' = [op |-> "submit", code |-> reply.code, msg |-> reply.msg]
  /\ UNCHANGED <<rooms, users, hostels, faults, held, procs>>

\* ------------------------------------- POST /applications/:id/approve, reject
CanReviewAlways(app) == TRUE

\* application.status !== "pending", negated
CanReview(app) == app.status = "pending"

\* The comments an approve request may carry.
ApproveComments == {NoComments}

\* router.post("/:id/approve", ...): a is the path parameter, the caller is the
\* admin; f = "app" fails application.save().
Approve(a, comments, f) ==
  LET reply == IF ~AppExists(a) THEN Reply(404, MsgAppNotFound)
               ELSE IF ~CanReview(apps[a]) THEN Reply(400, MsgOnlyPendingApproved)
               ELSE IF f = "app" THEN Reply(500, MsgApproveFailed)
               ELSE Reply(200, MsgApproved)
  IN
  /\ Idle
  /\ f \in {"none", "app"}
  /\ f # "none" => faults < MaxFaults /\ reply.code = 500
  /\ apps' = IF reply.code = 200 THEN [apps EXCEPT ![a] = approve(@, AdminId, comments)]
             ELSE apps
  /\ faults' = IF reply.code = 500 THEN faults + 1 ELSE faults
  /\ last' = [op |-> "approve", code |-> reply.code, msg |-> reply.msg]
  /\ UNCHANGED <<rooms, users, hostels, nextApp, held, procs>>

BlankCommentsEmptyOnly(comments) == ~comments.given \/ comments.text = <<>>

\* !comments || comments.trim().length === 0
BlankComments(comments) ==
  ~comments.given \/ comments.text = <<>> \/ Len(trim(comments.text)) = 0

\* The comments a reject request may carry: none, empty, blanks, a text.
RejectComments == {NoComments, Text(<<>>), Text(<<" ", " ">>), Text(<<" ", "x">>)}

\* router.post("/:id/reject", ...)
Reject(a, comments, f) ==
  LET reply == IF BlankComments(comments) THEN Reply(400, MsgReasonRequired)
               ELSE IF ~AppExists(a) THEN Reply(404, MsgAppNotFound)
               ELSE IF ~CanReview(apps[a]) THEN Reply(400, MsgOnlyPendingRejected)
               ELSE IF f = "app" THEN Reply(500, MsgRejectFailed)
               ELSE Reply(200, MsgRejected)
  IN
  /\ Idle
  /\ f \in {"none", "app"}
  /\ f # "none" => faults < MaxFaults /\ reply.code = 500
  /\ apps' = IF reply.code = 200 THEN [apps EXCEPT ![a] = reject(@, AdminId, comments)]
             ELSE apps
  /\ faults' = IF reply.code = 500 THEN faults + 1 ELSE faults
  /\ last' = [op |-> "reject", code |-> reply.code, msg |-> reply.msg]
  /\ UNCHANGED <<rooms, users, hostels, nextApp, held, procs>>

\* ------------------------------------ PUT and DELETE /applications/:id
\* req.user as the two handlers read it: role and _id.
Callers ==
  {[role |-> "student", id |-> s] : s \in Students} \cup {[role |-> "admin", id |-> AdminId]}

OwnsAlways(caller, app) == TRUE

\* application.student.toString() !== req.user._id.toString(), negated
Owns(caller, app) == app.student = caller.id

\* The checks PUT and DELETE share: found, then for a student owner and pending.
WriteCheck(caller, a, msgNotPending) ==
  IF ~AppExists(a) THEN Reply(404, MsgAppNotFound)
  ELSE IF caller.role = "student" /\ ~Owns(caller, apps[a]) THEN Reply(403, MsgAccessDenied)
  ELSE IF caller.role = "student" /\ apps[a].status # "pending"
    THEN Reply(400, msgNotPending)
  ELSE Reply(0, "")

\* Bodies of PUT: a semester to move the application to (or none) and a status,
\* one of the fields the handler drops.
UpdateBodies ==
  { [semester |-> Missing, status |-> "approved", reviewComments |-> NoComments],
    [semester |-> "second", status |-> Missing, reviewComments |-> NoComments] }

\* A body of PUT that carries reviewComments.
CommentBodies ==
  { [semester |-> Missing, status |-> Missing, reviewComments |-> Text(<<"x", " ">>)] }

\* const { student, status, reviewedBy, reviewedAt, assignedRoom, ...updateData } = req.body
updateData(body) == [semester |-> body.semester, reviewComments |-> body.reviewComments]

\* findByIdAndUpdate(id, updateData): the paths of updateData are set.
ApplyAppUpdate(app, data) ==
  [app EXCEPT
     !.semester = IF data.semester # Missing THEN data.semester ELSE @,
     !.reviewComments = IF data.reviewComments.given
                        THEN StoredComments(data.reviewComments) ELSE @]

\* The unique index (student, academicYear, semester) refuses the update.
DuplicateKey(a, data) ==
  /\ data.semester # Missing
  /\ \E b \in AppIds \ {a} : /\ apps[b].exists /\ apps[b].student = apps[a].student
                               /\ apps[b].academicYear = apps[a].academicYear
                               /\ apps[b].semester = data.semester

\* router.put("/:id", ...): valid is whether the body passes the validators.
UpdateApplication(caller, a, body, valid) ==
  LET chk == WriteCheck(caller, a, MsgOnlyPendingUpdated)
      data == updateData(body)
      reply == IF chk.code # 0 THEN chk
               ELSE IF ~valid THEN Reply(400, MsgValidation)
               ELSE IF DuplicateKey(a, data) THEN Reply(500, MsgUpdateFailed)
               ELSE Reply(200, MsgAppUpdated)
  IN
  /\ Idle
  /\ apps' = IF reply.code = 200 THEN [apps EXCEPT ![a] = ApplyAppUpdate(@, data)]
             ELSE apps
  /\ last' = [op |-> "update", code |-> reply.code, msg |-> reply.msg]
  /\ UNCHANGED <<rooms, users, hostels, nextApp, faults, held, procs>>

\* router.delete("/:id", ...): f = "app" fails findByIdAndDelete.
DeleteApplication(caller, a, f) ==
  LET chk == WriteCheck(caller, a, MsgOnlyPendingDeleted)
      reply == IF chk.code # 0 THEN chk
               ELSE IF f = "app" THEN Reply(500, MsgDeleteAppFailed)
               ELSE Reply(200, MsgAppDeleted)
  IN
  /\ Idle
  /\ f \in {"none", "app"}
  /\ f # "none" => faults < MaxFaults /\ reply.code = 500
  /\ apps' = IF reply.code = 200 THEN [apps EXCEPT ![a] = NoAppDoc] ELSE apps
  /\ faults' = IF reply.code = 500 THEN faults + 1 ELSE faults
  /\ last' = [op |-> "deleteApp", code |-> reply.code, msg |-> reply.msg]
  /\ UNCHANGED <<rooms, users, hostels, nextApp, held, procs>>

\* ------------------------------------------- POST /rooms, PUT /rooms/:id
\* A request body for a room: the keys it carries and their values (the value
\* of a key that is not in keys is not read).
RoomBody(keys, cap, g, beds, occ) ==
  [keys |-> keys, capacity |-> cap, gender |-> g, occupiedBeds |-> beds, occupants |-> occ]

\* The validators of the Room schema on the paths a body carries: capacity min
\* and max, gender enum, occupiedBeds min, bedNumber required.
RoomPathsValid(body) ==
  /\ "capacity" \in body.keys => body.capacity \in MinCapacity..SchemaMaxCapacity
  /\ "gender" \in body.keys => body.gender \in Genders
  /\ "occupiedBeds" \in body.keys => body.occupiedBeds >= 0

\* save() of a new Room: the required paths and the validators.
RoomCreateValid(body) ==
  /\ {"capacity", "gender"} \subseteq body.keys
  /\ RoomPathsValid(body)

\* new Room(req.body): every path of the body is taken, an absent path gets the
\* schema default (occupiedBeds 0, occupants [], isActive true).
RoomFromBody(h, body) ==
  [exists |-> TRUE, hostel |-> h, capacity |-> body.capacity, gender |-> body.gender,
   isActive |-> TRUE,
   occupiedBeds |-> IF "occupiedBeds" \in body.keys THEN body.occupiedBeds ELSE 0,
   occupants |-> IF "occupants" \in body.keys THEN body.occupants ELSE <<>>]

\* Bodies of POST /rooms: the form alone, with occupiedBeds, with occupants and
\* occupiedBeds, and one whose capacity the schema refuses.
RoomBodies ==
  { RoomBody({"capacity", "gender"}, MinCapacity, "male", 0, <<>>),
    RoomBody({"capacity", "gender", "occupiedBeds"}, MinCapacity, "male", 1, <<>>),
    RoomBody({"capacity", "gender", "occupiedBeds", "occupants"}, MinCapacity, "male", 1,
             <<[student |-> "s3", bedNumber |-> 1]>>),
    RoomBody({"capacity", "gender"}, SchemaMaxCapacity + 1, "male", 0, <<>>) }

\* router.post("/", ...) of the rooms router: r is the id the new document gets
\* (an id names one document for ever), dup whether the (number, hostel) index
\* refuses the insert, f = "room" fails the insert otherwise.
CreateRoom(r, body, dup, f) ==
  LET reply == IF ~RoomCreateValid(body) THEN Reply(400, MsgValidation)
               ELSE IF dup THEN Reply(400, MsgRoomNumberExists)
               ELSE IF f = "room" THEN Reply(500, MsgCreateRoomFailed)
               ELSE Reply(201, MsgRoomCreated)
  IN
  /\ Idle
  /\ ~rooms[r].exists
  /\ f \in {"none", "room"}
  /\ f # "none" => faults < MaxFaults /\ reply.code = 500
  /\ rooms' = IF reply.code = 201 THEN [rooms EXCEPT ![r] = RoomFromBody("h1", body)]
              ELSE rooms
  /\ faults' = IF reply.code = 500 THEN faults + 1 ELSE faults
  /\ last' = [op |-> "createRoom", code |-> reply.code, msg |-> reply.msg]
  /\ UNCHANGED <<users, apps, hostels, nextApp, held, procs>>

\* const { occupants, occupiedBeds, ...updateData } = req.body
roomUpdateData(body) == [body EXCEPT !.keys = @ \ {"occupants", "occupiedBeds"}]

\* findByIdAndUpdate(id, updateData): the paths of updateData are set.
ApplyRoomUpdate(room, data) ==
  [room EXCEPT
     !.capacity = IF "capacity" \in data.keys THEN data.capacity ELSE @,
     !.gender = IF "gender" \in data.keys THEN data.gender ELSE @,
     !.occupiedBeds = IF "occupiedBeds" \in data.keys THEN data.occupiedBeds ELSE @,
     !.occupants = IF "occupants" \in data.keys THEN data.occupants ELSE @]

\* Bodies of PUT /rooms/:id: a gender, a capacity, the ledger fields, and a
\* capacity the schema refuses.
RoomUpdateBodies ==
  { RoomBody({"gender"}, MinCapacity, "female", 0, <<>>),
    RoomBody({"gender"}, MinCapacity, "male", 0, <<>>),
    RoomBody({"capacity"}, MinCapacity, "male", 0, <<>>),
    RoomBody({"occupiedBeds", "occupants"}, MinCapacity, "male", 0, <<>>),
    RoomBody({"capacity"}, SchemaMaxCapacity + 1, "male", 0, <<>>) }

\* router.put("/:id", ...) of the rooms router: runValidators checks the paths of
\* updateData before the update is sent; f = "room" fails the update.
UpdateRoom(r, body, f) ==
  LET data == roomUpdateData(body)
      reply == IF ~RoomPathsValid(data) THEN Reply(400, MsgValidation)
               ELSE IF f = "room" THEN Reply(500, MsgUpdateRoomFailed)
               ELSE IF ~RoomExists(r) THEN Reply(404, MsgRoomNotFound)
               ELSE Reply(200, MsgRoomUpdated)
  IN
  /\ Idle
  /\ f \in {"none", "room"}
  /\ f # "none" => faults < MaxFaults /\ reply.code = 500
  /\ rooms' = IF reply.code = 200 THEN [rooms EXCEPT ![r] = ApplyRoomUpdate(@, data)]
              ELSE rooms
  /\ faults' = IF reply.code = 500 THEN faults + 1 ELSE faults
  /\ last' = [op |-> "updateRoom", code |-> reply.code, msg |-> reply.msg]
  /\ UNCHANGED <<users, apps, hostels, nextApp, held, procs>>

\* ------------------------------------------------------ PUT /auth/profile
\* const allowedUpdates = ["name", "phoneNumber", "department"]
allowedUpdates == {"name", "phoneNumber", "department"}

\* Bodies of PUT /auth/profile: a name, a name and a gender, a room pointer.
ProfileBodies ==
  { [keys |-> {"name"}, gender |-> "male", roomAssigned |-> NoRoom],
    [keys |-> {"name", "gender"}, gender |-> "female", roomAssigned |-> NoRoom],
    [keys |-> {"roomAssigned"}, gender |-> "male", roomAssigned |-> "r2"] }

\* The keys of the body that are in allowedUpdates.
profileUpdates(body) == [body EXCEPT !.keys = @ \cap allowedUpdates]

\* findByIdAndUpdate(req.user._id, updates): the paths of updates are set (name,
\* phoneNumber and department are not among the fields of the model's User).
ApplyProfileUpdate(user, updates) ==
  [user EXCEPT
     !.gender = IF "gender" \in updates.keys THEN updates.gender ELSE @,
     !.roomAssigned = IF "roomAssigned" \in updates.keys THEN updates.roomAssigned ELSE @]

\* router.put("/profile", ...): s is the authenticated user, valid whether the
\* updates pass the validators.
UpdateProfile(s, body, valid) ==
  LET updates == profileUpdates(body)
      reply == IF ~valid THEN Reply(400, MsgValidation)
               ELSE Reply(200, MsgProfileUpdated)
  IN
  /\ Idle
  /\ users' = IF reply.code = 200 THEN [users EXCEPT ![s] = ApplyProfileUpdate(@, updates)]
              ELSE users
  /\ last' = [op |-> "updateProfile", code |-> reply.code, msg |-> reply.msg]
  /\ UNCHANGED <<rooms, apps, hostels, nextApp, faults, held, procs>>

\* ------------------------------------------------------- one at a time
\* Requests run one at a time and every store write succeeds. One student files
\* one application, so that assignments can name it.
Next ==
  \/ \E s \in StudentArgs, r \in RoomArgs, a \in AppArgs : Assign(s, r, a, "none")
  \/ \E s \in StudentArgs, r \in RoomIds : RemoveStudent(s, r, "none")
  \/ \E r \in RoomIds : DeleteRoom(r, "none")
  \/ \E h \in HostelIds : DeleteHostel(h, "none")
  \/ Submit("s1", "first", PlainBody, TRUE)

Spec == Init /\ [][Next]_vars

\* Requests run one at a time and a store write may fail (at most MaxFaults
\* times): the handler's catch block answers 500 and nothing is rolled back.
NextFaults ==
  \/ \E s \in {"s1", "s2"}, r \in RoomIds, a \in {NoApp, 1}, f \in WriteFaults :
        Assign(s, r, a, f)
  \/ \E s \in {"s1", "s2"}, r \in RoomIds, f \in WriteFaults : RemoveStudent(s, r, f)
  \/ Submit("s1", "first", PlainBody, TRUE)

SpecFaults == Init /\ [][NextFaults]_vars

\* Rooms and hostels are deleted between assignments and removals; the user
\* write of a removal and the deletes may fail.
NextDeletes ==
  \/ \E s \in {"s1", "s2"}, r \in RoomIds : Assign(s, r, NoApp, "none")
  \/ \E s \in {"s1", "s2"}, r \in RoomIds, f \in {"none", "user"} : RemoveStudent(s, r, f)
  \/ \E r \in RoomIds, f \in {"none", "room"} : DeleteRoom(r, f)
  \/ \E h \in HostelIds, f \in {"none", "room", "hostel"} : DeleteHostel(h, f)

SpecDeletes == Init /\ [][NextDeletes]_vars

\* Application requests of two students with every semester and body, over a
\* ledger that moves by fault-free assignments of s1 to room r1 and removals.
NextApps ==
  \/ \E s \in Applicants, sem \in Semesters, body \in Bodies, valid \in BOOLEAN :
        Submit(s, sem, body, valid)
  \/ \E a \in AppArgs : Assign("s1", "r1", a, "none")
  \/ RemoveStudent("s1", "r1", "none")

SpecApps == Init /\ [][NextApps]_vars

\* The life of an application: s1 or s2 submits for the first semester, the
\* admin reviews, the students and the admin update and delete, and s1 is
\* assigned to room r1 under an application id and removed again. Every store
\* write succeeds; the rooms are the two one-bed rooms for men.
InitReview ==
  /\ Init
  /\ rooms["r1"].capacity = MinCapacity
  /\ rooms["r2"].gender = "male" /\ rooms["r2"].isActive

ReviewCallers == {c \in Callers : c.id \in Applicants \cup {AdminId}}

\* The ids of the records SpecReview can create.
ReviewIds == 1..MaxReviewed

\* A submit for the first semester while fewer than MaxReviewed records exist.
SubmitReviewed(s, body) ==
  /\ nextApp <= MaxReviewed
  /\ Submit(s, "first", body, TRUE)

NextReview ==
  \/ \E s \in Applicants, body \in Bodies : SubmitReviewed(s, body)
  \/ \E a \in ReviewIds, c \in ApproveComments : Approve(a, c, "none")
  \/ \E a \in ReviewIds, c \in RejectComments : Reject(a, c, "none")
  \/ \E c \in ReviewCallers, a \in ReviewIds, body \in UpdateBodies, valid \in BOOLEAN :
        UpdateApplication(c, a, body, valid)
  \/ \E c \in ReviewCallers, a \in ReviewIds : DeleteApplication(c, a, "none")
  \/ \E a \in AppArgs : Assign("s1", "r1", a, "none")
  \/ RemoveStudent("s1", "r1", "none")

SpecReview == InitReview /\ [][NextReview]_vars

\* The requests that touch an application besides its deletion: submit, review,
\* update with and without reviewComments, assignment of s1 to r1 under an
\* application id, removal.
NextFrame ==
  \/ \E s \in Applicants, body \in Bodies : SubmitReviewed(s, body)
  \/ \E a \in ReviewIds, c \in ApproveComments : Approve(a, c, "none")
  \/ \E a \in ReviewIds, c \in RejectComments : Reject(a, c, "none")
  \/ \E c \in ReviewCallers, a \in ReviewIds, body \in UpdateBodies \cup CommentBodies :
        UpdateApplication(c, a, body, TRUE)
  \/ \E a \in AppArgs : Assign("s1", "r1", a, "none")
  \/ RemoveStudent("s1", "r1", "none")

SpecFrame == InitReview /\ [][NextFrame]_vars

\* Applications are created pending; students are assigned with or without an
\* application id and removed, and applications are deleted.
NextAssigned ==
  \/ \E s \in Applicants : Submit(s, "first", PlainBody, TRUE)
  \/ \E s \in Applicants, r \in RoomIds, a \in AppArgs : Assign(s, r, a, "none")
  \/ \E s \in Applicants, r \in RoomIds : RemoveStudent(s, r, "none")
  \/ \E c \in ReviewCallers, a \in AppIds : DeleteApplication(c, a, "none")

SpecAssigned == InitReview /\ [][NextAssigned]_vars

\* Applications are created pending and reviewed; students are assigned under
\* an application id and removed.
NextReviewed ==
  \/ \E s \in Applicants : Submit(s, "first", PlainBody, TRUE)
  \/ \E a \in AppIds, c \in ApproveComments : Approve(a, c, "none")
  \/ \E a \in AppIds : Reject(a, Text(<<"x">>), "none")
  \/ \E s \in Applicants, r \in RoomIds, a \in AppIds : Assign(s, r, a, "none")
  \/ \E s \in Applicants, r \in RoomIds : RemoveStudent(s, r, "none")

SpecReviewed == InitReview /\ [][NextReviewed]_vars

\* The admin edits the rooms between assignments and removals, and the students
\* edit their profiles; every store write succeeds.
NextRoomAdmin ==
  \/ \E s \in Applicants, r \in RoomIds : Assign(s, r, NoApp, "none")
  \/ \E s \in Applicants, r \in RoomIds : RemoveStudent(s, r, "none")
  \/ \E r \in RoomIds, body \in RoomUpdateBodies : UpdateRoom(r, body, "none")
  \/ \E s \in Applicants, body \in ProfileBodies, valid \in BOOLEAN :
        UpdateProfile(s, body, valid)

SpecRoomAdmin == Init /\ [][NextRoomAdmin]_vars

\* Room r2 has not been created yet: the admin creates it, and edits both rooms
\* between assignments and removals.
InitCreate ==
  /\ \E cap \in 1..MaxCapacity :
       rooms = [r \in RoomIds |->
                  IF r = "r1" THEN NewRoom("h1", cap, "male", TRUE) ELSE NoRoomDoc]
  /\ users = [s \in Students |-> [gender |-> UserGender(s), roomAssigned |-> NoRoom]]
  /\ apps = [a \in AppIds |-> NoAppDoc]
  /\ hostels = [h \in HostelIds |-> [exists |-> TRUE]]
  /\ nextApp = 1
  /\ faults = 0
  /\ last = [op |-> "none", code |-> 0, msg |-> ""]
  /\ held = [s \in Students |-> NoRoom]
  /\ procs = [p \in Procs |-> IdleProc]

NextRoomCreate ==
  \/ \E body \in RoomBodies, dup \in BOOLEAN : CreateRoom("r2", body, dup, "none")
  \/ \E r \in RoomIds, body \in RoomUpdateBodies : UpdateRoom(r, body, "none")
  \/ \E s \in Applicants, r \in RoomIds : Assign(s, r, NoApp, "none")
  \/ \E s \in Applicants, r \in RoomIds : RemoveStudent(s, r, "none")

SpecRoomCreate == InitCreate /\ [][NextRoomCreate]_vars

\* ------------------------------------------- the Room methods, called directly
\* room.assignStudent(s) on the stored document: code 200 when the call
\* returned, 500 when it threw.
CallAssignStudent(r, s) ==
  LET res == assignStudent(rooms[r], s) IN
  /\ Idle
  /\ RoomExists(r)
  /\ rooms' = [rooms EXCEPT ![r] = res.room]
  /\ last' = [op |-> "assignStudent", code |-> IF res.ok THEN 200 ELSE 500,
              msg |-> res.err]
  /\ UNCHANGED <<users, apps, hostels, nextApp, faults, held, procs>>

\* room.removeStudent(s) on the stored document
CallRemoveStudent(r, s) ==
  LET res == removeStudent(rooms[r], s) IN
  /\ Idle
  /\ RoomExists(r)
  /\ rooms' = [rooms EXCEPT ![r] = res.room]
  /\ last' = [op |-> "removeStudent", code |-> IF res.ok THEN 200 ELSE 500,
              msg |-> res.err]
  /\ UNCHANGED <<users, apps, hostels, nextApp, faults, held, procs>>

\* room.assignStudent(s) and, when it returned, room.removeStudent(s) right
\* after it on the same document.
CallAssignThenRemove(r, s) ==
  LET a == assignStudent(rooms[r], s)
      b == removeStudent(a.room, s)
  IN
  /\ Idle
  /\ RoomExists(r)
  /\ rooms' = [rooms EXCEPT ![r] = IF a.ok THEN b.room ELSE a.room]
  /\ last' = [op |-> "assignThenRemove", code |-> IF a.ok /\ b.ok THEN 200 ELSE 500,
              msg |-> IF a.ok THEN b.err ELSE a.err]
  /\ UNCHANGED <<users, apps, hostels, nextApp, faults, held, procs>>

\* Room r1 is created with MaxBeds beds, room r2 with one.
InitRoom ==
  /\ rooms = [r \in RoomIds |->
               NewRoom("h1", IF r = "r1" THEN MaxBeds ELSE MinCapacity, "male", TRUE)]
  /\ users = [s \in Students |-> [gender |-> UserGender(s), roomAssigned |-> NoRoom]]
  /\ apps = [a \in AppIds |-> NoAppDoc]
  /\ hostels = [h \in HostelIds |-> [exists |-> TRUE]]
  /\ nextApp = 1
  /\ faults = 0
  /\ last = [op |-> "none", code |-> 0, msg |-> ""]
  /\ held = [s \in Students |-> NoRoom]
  /\ procs = [p \in Procs |-> IdleProc]

NextRoom ==
  \/ \E r \in RoomIds, s \in Students : CallAssignStudent(r, s)
  \/ \E r \in RoomIds, s \in Students : CallRemoveStudent(r, s)
  \/ \E r \in RoomIds, s \in Students : CallAssignThenRemove(r, s)

SpecRoom == InitRoom /\ [][NextRoom]_vars

\* ------------------------------------- POST /rooms/assign, interleaved
\* Two requests, p1 and p2, arrive after any number of requests that ran one at
\* a time. Each await of the handler is one step: the store call takes effect,
\* then the handler runs on alone up to its next await.

SaveAssignedRoomInc(dbRoom, loaded, s) ==
  [dbRoom EXCEPT
     !.occupants = Append(@, [student |-> s, bedNumber |-> loaded.occupiedBeds + 1]),
     !.occupiedBeds = @ + 1]

\* room.save() after assignStudent modified the loaded copy: the update carries
\* the pushed occupant ($push) and the new counter value ($set), computed from
\* the copy the request loaded.
SaveAssignedRoom(dbRoom, loaded, s) ==
  [dbRoom EXCEPT
     !.occupants = Append(@, [student |-> s, bedNumber |-> loaded.occupiedBeds + 1]),
     !.occupiedBeds = loaded.occupiedBeds + 1]

ConcReply(p, code, msg) ==
  /\ procs' = [procs EXCEPT ![p].pc = "done", ![p].code = code]
  /\ last' = [op |-> "assign", code |-> code, msg |-> msg]

ConcGoto(p, pc) ==
  /\ procs' = [procs EXCEPT ![p].pc = pc]
  /\ UNCHANGED last

\* The request arrives: the id check, then User.findById is awaited.
ConcStart(p, s, r, a) ==
  /\ procs[p].pc = "idle"
  /\ IF s = Missing \/ r = Missing
     THEN ConcReply(p, 400, MsgIdsRequired)
     ELSE /\ procs' = [procs EXCEPT ![p] = [IdleProc EXCEPT !.pc = "findStudent",
                                              !.student = s, !.room = r, !.app = a]]
          /\ UNCHANGED last
  /\ UNCHANGED <<rooms, users, apps, hostels, nextApp, faults, held>>

\* User.findById answers; the student checks; Room.findById is awaited.
ConcFindStudent(p) ==
  LET s == procs[p].student IN
  /\ procs[p].pc = "findStudent"
  /\ IF ~UserExists(s) THEN ConcReply(p, 404, MsgStudentNotFound)
     ELSE IF ~Unassigned(users[s]) THEN ConcReply(p, 400, MsgAlreadyAssigned)
     ELSE /\ procs' = [procs EXCEPT ![p].pc = "findRoom", ![p].studentDoc = users[s]]
          /\ UNCHANGED last
  /\ UNCHANGED <<rooms, users, apps, hostels, nextApp, faults, held>>

\* Room.findById answers; the room checks, assignStudent up to its save().
ConcFindRoom(p) ==
  LET r == procs[p].room
      st == procs[p].studentDoc
  IN
  /\ procs[p].pc = "findRoom"
  /\ IF ~RoomExists(r) THEN ConcReply(p, 404, MsgRoomNotFound)
     ELSE IF ~isAvailable(rooms[r]) THEN ConcReply(p, 400, MsgRoomNotAvailable)
     ELSE IF ~GenderMatches(st, rooms[r]) THEN ConcReply(p, 400, MsgGenderMismatch)
     ELSE /\ procs' = [procs EXCEPT ![p].pc = "saveRoom", ![p].roomDoc = rooms[r]]
          /\ UNCHANGED last
  /\ UNCHANGED <<rooms, users, apps, hostels, nextApp, faults, held>>

\* room.save() takes effect; student.roomAssigned = roomId; student.save() awaited.
ConcSaveRoom(p) ==
  LET r == procs[p].room IN
  /\ procs[p].pc = "saveRoom"
  /\ IF ~RoomExists(r)
     THEN /\ ConcReply(p, 500, MsgStoreError)
          /\ UNCHANGED rooms
     ELSE /\ rooms' = [rooms EXCEPT ![r] = SaveAssignedRoom(@, procs[p].roomDoc, procs[p].student)]
          /\ ConcGoto(p, "saveUser")
  /\ UNCHANGED <<users, apps, hostels, nextApp, faults, held>>

\* student.save() takes effect; Application.findById or the final Room.findById awaited.
ConcSaveUser(p) ==
  /\ procs[p].pc = "saveUser"
  /\ users' = [users EXCEPT ![procs[p].student].roomAssigned = procs[p].room]
  /\ ConcGoto(p, IF procs[p].app # NoApp THEN "findApp" ELSE "respond")
  /\ UNCHANGED <<rooms, apps, hostels, nextApp, faults, held>>

\* Application.findById answers; assignRoom up to its save() when it was found.
ConcFindApp(p) ==
  /\ procs[p].pc = "findApp"
  /\ ConcGoto(p, IF AppExists(procs[p].app) THEN "saveApp" ELSE "respond")
  /\ UNCHANGED <<rooms, users, apps, hostels, nextApp, faults, held>>

\* application.save() takes effect (status and assignedRoom are the modified paths).
ConcSaveApp(p) ==
  /\ procs[p].pc = "saveApp"
  /\ apps' = [apps EXCEPT ![procs[p].app] = assignRoom(@, procs[p].room)]
  /\ ConcGoto(p, "respond")
  /\ UNCHANGED <<rooms, users, hostels, nextApp, faults, held>>

\* The final Room.findById answers and the 200 reply is sent.
ConcRespond(p) ==
  /\ procs[p].pc = "respond"
  /\ ConcReply(p, 200, MsgAssigned)
  /\ held' = [held EXCEPT ![procs[p].student] = procs[p].room]
  /\ UNCHANGED <<rooms, users, apps, hostels, nextApp, faults>>

NextConc ==
  \/ \E s \in Students, r \in RoomIds : Assign(s, r, NoApp, "none")
  \/ \E p \in Procs, s \in Students, r \in RoomArgs, a \in {NoApp, 1} : ConcStart(p, s, r, a)
  \/ \E p \in Procs : ConcFindStudent(p)
  \/ \E p \in Procs : ConcFindRoom(p)
  \/ \E p \in Procs : ConcSaveRoom(p)
  \/ \E p \in Procs : ConcSaveUser(p)
  \/ \E p \in Procs : ConcFindApp(p)
  \/ \E p \in Procs : ConcSaveApp(p)
  \/ \E p \in Procs : ConcRespond(p)
  \/ Submit("s1", "first", PlainBody, TRUE)

SpecConc == Init /\ [][NextConc]_vars

\* ------------------------------------- POST /applications/submit, interleaved
\* Two submit requests, p1 and p2; each await of the handler is one step.
SubmitReply(p, code, msg) ==
  /\ procs' = [procs EXCEPT ![p].pc = "done", ![p].code = code]
  /\ last' = [op |-> "submit", code |-> code, msg |-> msg]

UniqueIndexAbsent(s, year, sem) == FALSE

\* applicationSchema.index({student, academicYear, semester}, {unique: true}):
\* the insert is refused (error.code 11000) when a record has the key.
UniqueIndexRefuses(s, year, sem) == HasApplication(s, year, sem)

\* The request arrives: authenticateToken loads req.user, then
\* Application.findOne is awaited.
SubmitStart(p, s, sem) ==
  /\ procs[p].pc = "idle"
  /\ procs' = [procs EXCEPT ![p] = [IdleProc EXCEPT !.pc = "findOne", !.student = s,
                                    !.semester = sem, !.studentDoc = users[s]]]
  /\ UNCHANGED <<rooms, users, apps, hostels, nextApp, faults, last, held>>

\* findOne answers; the two pre-checks; application.save() is awaited.
SubmitFindOne(p) ==
  /\ procs[p].pc = "findOne"
  /\ IF HasApplication(procs[p].student, Year, procs[p].semester)
     THEN SubmitReply(p, 400, MsgDuplicateApplication)
     ELSE IF ~Unassigned(procs[p].studentDoc) THEN SubmitReply(p, 400, MsgHoldsRoom)
     ELSE /\ procs' = [procs EXCEPT ![p].pc = "save", ![p].precheck = TRUE]
          /\ UNCHANGED last
  /\ UNCHANGED <<rooms, users, apps, hostels, nextApp, faults, held>>

\* save() takes effect: the validators, then the insert under the unique index;
\* the catch block maps ValidationError and error.code 11000 to 400. The
\* populating findById is awaited.
SubmitSave(p, valid) ==
  LET s == procs[p].student
      sem == procs[p].semester
  IN
  /\ procs[p].pc = "save"
  /\ nextApp <= MaxApps
  /\ IF ~valid
     THEN SubmitReply(p, 400, MsgValidation) /\ UNCHANGED <<apps, nextApp>>
     ELSE IF UniqueIndexRefuses(s, Year, sem)
     THEN SubmitReply(p, 400, MsgDuplicateApplication) /\ UNCHANGED <<apps, nextApp>>
     ELSE /\ apps' = [apps EXCEPT ![nextApp] = NewApplication(s, Year, sem, PlainBody)]
          /\ nextApp' = nextApp + 1
          /\ procs' = [procs EXCEPT ![p].pc = "populate", ![p].app = nextApp]
          /\ UNCHANGED last
  /\ UNCHANGED <<rooms, users, hostels, faults, held>>

\* The populating findById answers and the 201 reply is sent.
SubmitRespond(p) ==
  /\ procs[p].pc = "populate"
  /\ SubmitReply(p, 201, MsgSubmitted)
  /\ UNCHANGED <<rooms, users, apps, hostels, nextApp, faults, held>>

NextSubmitConc ==
  \/ Assign("s1", "r1", NoApp, "none")
  \/ \E p \in Procs, s \in Applicants, sem \in Semesters : SubmitStart(p, s, sem)
  \/ \E p \in Procs : SubmitFindOne(p)
  \/ \E p \in Procs, valid \in BOOLEAN : SubmitSave(p, valid)
  \/ \E p \in Procs : SubmitRespond(p)

SpecSubmitConc == InitReview /\ [][NextSubmitConc]_vars

\* ------------------------- POST /applications/:id/approve, reject, interleaved
\* Two review requests, p1 and p2; each await of the handlers is one step.
ReviewKinds == {"approve", "reject"}
Admins == {AdminId, OtherAdminId}

ReviewReply(p, code, msg) ==
  /\ procs' = [procs EXCEPT ![p].pc = "done", ![p].code = code]
  /\ last' = [op |-> procs[p].kind, code |-> code, msg |-> msg]

\* The request arrives: reject tests its comments, then Application.findById is
\* awaited.
ReviewStart(p, kind, a, caller, comments) ==
  /\ procs[p].pc = "idle"
  /\ IF kind = "reject" /\ BlankComments(comments)
     THEN /\ procs' = [procs EXCEPT ![p] = [IdleProc EXCEPT !.pc = "done", !.kind = kind,
                                              !.app = a, !.caller = caller,
                                              !.comments = comments, !.code = 400]]
          /\ last' = [op |-> kind, code |-> 400, msg |-> MsgReasonRequired]
     ELSE /\ procs' = [procs EXCEPT ![p] = [IdleProc EXCEPT !.pc = "findApp", !.kind = kind,
                                              !.app = a, !.caller = caller,
                                              !.comments = comments]]
          /\ UNCHANGED last
  /\ UNCHANGED <<rooms, users, apps, hostels, nextApp, faults, held>>

\* findById answers; the found and pending checks; approve or reject modifies
\* the loaded copy and its save() is awaited.
ReviewFind(p) ==
  LET a == procs[p].app
      kind == procs[p].kind
  IN
  /\ procs[p].pc = "findApp"
  /\ IF ~AppExists(a) THEN ReviewReply(p, 404, MsgAppNotFound)
     ELSE IF ~CanReview(apps[a])
     THEN ReviewReply(p, 400, IF kind = "approve" THEN MsgOnlyPendingApproved
                              ELSE MsgOnlyPendingRejected)
     ELSE /\ procs' = [procs EXCEPT
                         ![p].pc = "saveApp",
                         ![p].appDoc = IF kind = "approve"
                                       THEN approve(apps[a], procs[p].caller, procs[p].comments)
                                       ELSE reject(apps[a], procs[p].caller, procs[p].comments)]
          /\ UNCHANGED last
  /\ UNCHANGED <<rooms, users, apps, hostels, nextApp, faults, held>>

\* application.save() after approve or reject modified the loaded copy: the
\* update sets the four modified paths, whatever the stored document holds.
SaveReviewed(dbApp, copy) ==
  [dbApp EXCEPT !.status = copy.status, !.reviewedBy = copy.reviewedBy,
                !.reviewedAt = copy.reviewedAt, !.reviewComments = copy.reviewComments]

\* save() takes effect; the populating findById is awaited.
ReviewSave(p) ==
  LET a == procs[p].app IN
  /\ procs[p].pc = "saveApp"
  /\ IF ~AppExists(a)
     THEN /\ ReviewReply(p, 500, IF procs[p].kind = "approve" THEN MsgApproveFailed
                                  ELSE MsgRejectFailed)
          /\ UNCHANGED apps
     ELSE /\ apps' = [apps EXCEPT ![a] = SaveReviewed(@, procs[p].appDoc)]
          /\ procs' = [procs EXCEPT ![p].pc = "populate"]
          /\ UNCHANGED last
  /\ UNCHANGED <<rooms, users, hostels, nextApp, faults, held>>

\* The populating findById answers and the 200 reply is sent.
ReviewRespond(p) ==
  /\ procs[p].pc = "populate"
  /\ ReviewReply(p, 200, IF procs[p].kind = "approve" THEN MsgApproved ELSE MsgRejected)
  /\ UNCHANGED <<rooms, users, apps, hostels, nextApp, faults, held>>

\* The comments of an interleaved review: none, or a reason.
ReviewComments == {NoComments, Text(<<"x">>)}

\* A student files an application, then two admins review it at the same time.
NextReviewConc ==
  \/ \E s \in Applicants : SubmitReviewed(s, PlainBody)
  \/ \E p \in Procs, kind \in ReviewKinds, a \in ReviewIds, caller \in Admins,
        c \in ReviewComments : ReviewStart(p, kind, a, caller, c)
  \/ \E p \in Procs : ReviewFind(p)
  \/ \E p \in Procs : ReviewSave(p)
  \/ \E p \in Procs : ReviewRespond(p)

SpecReviewConc == InitReview /\ [][NextReviewConc]_vars

\* ======================================================================
\* Properties
\* ======================================================================
Occupants(r) == rooms[r].occupants

\* How many occupant records of room r name student u.
Occurrences(r, u) ==
  Cardinality({i \in 1..Len(Occupants(r)) : Occupants(r)[i].student = u})

BedNumbers(r) == {Occupants(r)[i].bedNumber : i \in 1..Len(Occupants(r))}

Full(r) == rooms[r].exists /\ rooms[r].occupiedBeds = rooms[r].capacity

OtherSemester(sem) == IF sem = "first" THEN "second" ELSE "first"

\* C1: after any sequence of assignment and remove-student requests run one at a
\* time, succeeded or failed, every room has occupiedBeds = occupants.length and
\* 0 <= occupiedBeds <= capacity.
C1_OccupancyConsistent ==
  \A r \in RoomIds :
    /\ rooms[r].occupiedBeds = Len(Occupants(r))
    /\ 0 <= rooms[r].occupiedBeds
    /\ rooms[r].occupiedBeds <= rooms[r].capacity

\* A room filled to capacity, seen right after a successful remove-student.
C1_Witness ==
  /\ last.op = "remove" /\ last.code = 200
  /\ \E r \in RoomIds : Full(r)

\* C2: with requests run one at a time on rooms that started empty, the bed
\* numbers of a room's occupants are exactly 1..occupiedBeds, none twice.
C2_BedNumbersDense ==
  \A r \in RoomIds :
    /\ BedNumbers(r) = 1..rooms[r].occupiedBeds
    /\ Cardinality(BedNumbers(r)) = Len(Occupants(r))

\* A successful release that left an occupant behind in the room.
C2_Witness ==
  /\ last.op = "remove" /\ last.code = 200
  /\ \E r \in RoomIds : Len(Occupants(r)) >= 1 /\ rooms[r].capacity >= 2

\* The room write of request p has been applied.
PastRoomSave(p) ==
  \/ procs[p].pc \in {"saveUser", "findApp", "saveApp", "respond"}
  \/ procs[p].pc = "done" /\ procs[p].code = 200

\* Both interleaved requests name room r and different students, each passed
\* isAvailable on a copy with exactly one free bed, and both room writes are
\* applied.
LastBedRace(r) ==
  /\ procs["p1"].room = r /\ procs["p2"].room = r
  /\ procs["p1"].student # procs["p2"].student
  /\ \A p \in Procs :
       /\ PastRoomSave(p)
       /\ procs[p].roomDoc.occupiedBeds = procs[p].roomDoc.capacity - 1

\* C3 as stated: two interleaved requests for the last free bed leave
\* occupiedBeds > capacity.
C3_CounterExceedsCapacity ==
  \A r \in RoomIds : LastBedRace(r) => rooms[r].occupiedBeds > rooms[r].capacity

\* C3 as amended: the two writes leave more occupants than capacity, while
\* occupiedBeds, which each request sets to its own copy's value plus one,
\* equals capacity; in no state of the interleaving does occupiedBeds exceed
\* capacity.
C3_OccupantsExceedCapacity ==
  \A r \in RoomIds :
    /\ rooms[r].occupiedBeds <= rooms[r].capacity
    /\ LastBedRace(r) => /\ Len(Occupants(r)) > rooms[r].capacity
                         /\ rooms[r].occupiedBeds = rooms[r].capacity

\* The race for the last bed of a room that already held an occupant.
C3_Witness == \E r \in RoomIds : LastBedRace(r) /\ rooms[r].capacity > 1

\* C4: with requests run one at a time and every store write succeeding, a
\* user's roomAssigned is r exactly when r's occupants hold the user once and no
\* other room's occupants hold the user.
C4_PointerMatchesOccupancy ==
  \A u \in Students, r \in RoomIds :
    users[u].roomAssigned = r
      <=> /\ Occurrences(r, u) = 1
          /\ \A r2 \in RoomIds \ {r} : Occurrences(r2, u) = 0

\* A student released from a room, another one still holding one.
C4_Witness ==
  /\ last.op = "remove" /\ last.code = 200
  /\ \E u \in Students : users[u].roomAssigned # NoRoom

\* C5: once an assignment request for s was answered 200, and until s is taken
\* out of that room, every assignment request for s to any room fails with the
\* already-assigned error and changes no room, user or application.
C5_SecondAssignRefused ==
  [][\A s \in Students, r \in RoomIds, a \in AppArgs, f \in WriteFaults :
       (held[s] # NoRoom /\ Assign(s, r, a, f))
         => /\ last'.code = 400 /\ last'.msg = MsgAlreadyAssigned
            /\ UNCHANGED <<rooms, users, apps>>]_vars

\* A student whose assignment was answered 200 and who is still among that
\* room's occupants, with roomAssigned unset.
C5_Witness ==
  \E s \in Students :
    /\ held[s] # NoRoom /\ Occurrences(held[s], s) = 1
    /\ users[s].roomAssigned = NoRoom

\* The request is for an existing, unassigned student and an existing room of
\* the other gender.
GenderMismatchCase(s, r) ==
  /\ UserExists(s) /\ Unassigned(users[s])
  /\ RoomExists(r) /\ users[s].gender # rooms[r].gender

\* C6 as stated: such a request always fails with the gender-mismatch error and
\* leaves the room and the student's roomAssigned as they were.
C6_AlwaysGenderMismatch ==
  [][\A s \in Students, r \in RoomIds, a \in AppArgs :
       (GenderMismatchCase(s, r) /\ Assign(s, r, a, "none"))
         => /\ last'.code = 400 /\ last'.msg = MsgGenderMismatch
            /\ rooms'[r] = rooms[r] /\ users'[s] = users[s]]_vars

\* C6 as amended: such a request always fails and leaves the room and the
\* student as they were; the error is gender-mismatch when the room is
\* available and room-not-available when it is not.
C6_MismatchRefused ==
  [][\A s \in Students, r \in RoomIds, a \in AppArgs :
       (GenderMismatchCase(s, r) /\ Assign(s, r, a, "none"))
         => /\ last'.code = 400
            /\ last'.msg = IF isAvailable(rooms[r]) THEN MsgGenderMismatch
                           ELSE MsgRoomNotAvailable
            /\ rooms'[r] = rooms[r] /\ users'[s] = users[s]]_vars

C6_Witness ==
  /\ last.op = "assign" /\ last.msg = MsgGenderMismatch
  /\ \E r \in RoomIds : rooms[r].occupiedBeds > 0

\* A direct call of Room.assignStudent on a full room throws room-not-available
\* and leaves the document as it was, whoever the student.
DirectCallRefused ==
  \A r \in RoomIds, s \in StudentArgs :
    Full(r) => LET res == assignStudent(rooms[r], s) IN
               ~res.ok /\ res.err = MsgRoomNotAvailable /\ res.room = rooms[r]

\* C7 as stated: any assignment to a room with occupiedBeds = capacity fails
\* with room-not-available, through the endpoint and through a direct call, and
\* leaves the room as it was.
C7_FullRoomNotAvailable ==
  [][/\ DirectCallRefused'
     /\ \A s \in StudentArgs, r \in RoomIds, a \in AppArgs :
          (Full(r) /\ Assign(s, r, a, "none"))
            => /\ last'.code = 400 /\ last'.msg = MsgRoomNotAvailable
               /\ rooms'[r] = rooms[r]]_vars

\* C7 as amended: the endpoint answers room-not-available when the student
\* exists and is unassigned (the student checks come first); for every student
\* the request fails and the room is as it was; the direct call always throws
\* room-not-available.
C7_FullRoomRefused ==
  [][/\ DirectCallRefused'
     /\ \A s \in StudentArgs, r \in RoomIds, a \in AppArgs :
          (Full(r) /\ Assign(s, r, a, "none"))
            => /\ last'.code \in {400, 404}
               /\ (UserExists(s) /\ Unassigned(users[s]))
                    => (last'.code = 400 /\ last'.msg = MsgRoomNotAvailable)
               /\ rooms'[r] = rooms[r]]_vars

C7_Witness ==
  /\ last.op = "assign" /\ last.msg = MsgRoomNotAvailable
  /\ \E r \in RoomIds : Full(r)

\* The replies of the checks that precede the room write.
PreWriteErrors ==
  {MsgIdsRequired, MsgStudentNotFound, MsgAlreadyAssigned, MsgRoomNotFound,
   MsgRoomNotAvailable, MsgGenderMismatch}

\* C8: an assignment request that fails at a check before the room write leaves
\* every Room, User and Application as it was.
C8_FailedCheckChangesNothing ==
  [][(last'.op = "assign" /\ last'.msg \in PreWriteErrors)
       => UNCHANGED <<rooms, users, apps>>]_vars

\* A refused request in a store that holds an occupant and an application.
C8_Witness ==
  /\ last.op = "assign" /\ last.msg \in PreWriteErrors
  /\ apps[1].exists
  /\ \E r \in RoomIds : Len(Occupants(r)) > 0

\* Room r after the step holds s as one more, last occupant.
OccupantAdded(s, r) ==
  /\ Len(rooms'[r].occupants) = Len(rooms[r].occupants) + 1
  /\ rooms'[r].occupants[Len(rooms'[r].occupants)].student = s
  /\ rooms'[r].occupiedBeds = rooms[r].occupiedBeds + 1

\* C9: when the room write succeeds and the user write or the application write
\* fails, the reply is an error and nothing is rolled back: the room keeps the
\* new occupant, and the user (failure at the user write) or the application
\* (failure at the application write) keeps its old values.
C9_NoRollback ==
  [][\A s \in Students, r \in RoomIds, a \in AppArgs :
       /\ Assign(s, r, a, "user")
            => /\ last'.code = 500
               /\ OccupantAdded(s, r)
               /\ users' = users /\ apps' = apps
       /\ Assign(s, r, a, "app")
            => /\ last'.code = 500
               /\ OccupantAdded(s, r)
               /\ users'[s].roomAssigned = r
               /\ apps' = apps]_vars

\* After a failed user write: an occupant whose roomAssigned is still unset.
C9_Witness ==
  /\ last.op = "assign" /\ last.code = 500 /\ faults > 0
  /\ \E s \in Students, r \in RoomIds :
       Occurrences(r, s) = 1 /\ users[s].roomAssigned = NoRoom

\* The application records of student s.
ApplicationsOf(s) == {a \in AppIds : apps[a].exists /\ apps[a].student = s}

\* Student s has a record for the model's academic year and semester sem.
HasRecord(s, sem) == \E a \in ApplicationsOf(s) : apps[a].semester = sem

\* C10: for a student without a room who has an application for (year,
\* semester), a submit with the same key fails with the duplicate-application
\* error and leaves the records as they were; a valid submit for the other
\* semester, for which the student has no application, succeeds and adds a record.
C10_DuplicateSubmit ==
  [][\A s \in Applicants, sem \in Semesters :
       /\ (/\ last'.op = "submit" /\ Unassigned(users[s])
           /\ HasRecord(s, sem)
           /\ \E body \in Bodies, valid \in BOOLEAN : Submit(s, sem, body, valid))
            => /\ last'.code = 400 /\ last'.msg = MsgDuplicateApplication
               /\ apps' = apps
       /\ (/\ last'.op = "submit" /\ Unassigned(users[s])
           /\ ~HasRecord(s, sem)
           /\ HasRecord(s, OtherSemester(sem))
           /\ \E body \in Bodies : Submit(s, sem, body, TRUE))
            => /\ last'.code = 201
               /\ apps'[nextApp].exists /\ apps'[nextApp].student = s
               /\ apps'[nextApp].semester = sem
               /\ \A a \in AppIds \ {nextApp} : apps'[a] = apps[a]]_vars

\* A student with a record for each semester, right after the second submit.
C10_Witness ==
  /\ last.op = "submit" /\ last.code = 201
  /\ \E s \in Students : Cardinality(ApplicationsOf(s)) = 2

\* The comments are undefined, empty or all blanks.
NoReason(c) == ~c.given \/ \A i \in 1..Len(c.text) : c.text[i] = " "

AnyComments == ApproveComments \cup RejectComments

Reviewed(app) == app.status # "pending"

\* The application carries the review of the admin with the given status.
ReviewedAs(app, status) ==
  app.status = status /\ app.reviewedBy = AdminId /\ app.reviewedAt

\* C11 as stated: an approve or reject on an application that is not pending
\* fails with the 400 only-pending error and changes nothing; on a pending
\* application it sets status, reviewedBy and reviewedAt; a reviewed application
\* never becomes pending again, so every later approve or reject fails.
C11_ReviewStateError ==
  [][\A a \in ReviewIds, c \in AnyComments :
       /\ (last'.op = "approve" /\ AppExists(a) /\ Approve(a, c, "none"))
            => IF Reviewed(apps[a])
               THEN /\ last'.code = 400 /\ last'.msg = MsgOnlyPendingApproved
                    /\ apps' = apps
               ELSE last'.code = 200 /\ ReviewedAs(apps'[a], "approved")
       /\ (last'.op = "reject" /\ AppExists(a) /\ Reject(a, c, "none"))
            => IF Reviewed(apps[a])
               THEN /\ last'.code = 400 /\ last'.msg = MsgOnlyPendingRejected
                    /\ apps' = apps
               ELSE last'.code = 200 /\ ReviewedAs(apps'[a], "rejected")
       /\ (AppExists(a) /\ Reviewed(apps[a]) /\ apps'[a].exists)
            => Reviewed(apps'[a])]_vars

\* C11 as amended: the same for approve and for reject with a reason; a reject
\* whose comments are missing or blank fails with the 400 reason-required error
\* and changes nothing, whatever the status.
C11_ReviewOnce ==
  [][\A a \in ReviewIds, c \in AnyComments :
       /\ (last'.op = "approve" /\ AppExists(a) /\ Approve(a, c, "none"))
            => IF Reviewed(apps[a])
               THEN /\ last'.code = 400 /\ last'.msg = MsgOnlyPendingApproved
                    /\ apps' = apps
               ELSE last'.code = 200 /\ ReviewedAs(apps'[a], "approved")
       /\ (last'.op = "reject" /\ AppExists(a) /\ ~NoReason(c) /\ Reject(a, c, "none"))
            => IF Reviewed(apps[a])
               THEN /\ last'.code = 400 /\ last'.msg = MsgOnlyPendingRejected
                    /\ apps' = apps
               ELSE last'.code = 200 /\ ReviewedAs(apps'[a], "rejected")
       /\ (last'.op = "reject" /\ AppExists(a) /\ NoReason(c) /\ Reject(a, c, "none"))
            => /\ last'.code = 400 /\ last'.msg = MsgReasonRequired
               /\ apps' = apps
       /\ (AppExists(a) /\ Reviewed(apps[a]) /\ apps'[a].exists)
            => Reviewed(apps'[a])]_vars

\* A second review refused: the only-pending error on a rejected application.
C11_Witness ==
  /\ last.op \in {"approve", "reject"} /\ last.code = 400
  /\ last.msg \in {MsgOnlyPendingApproved, MsgOnlyPendingRejected}
  /\ \E a \in AppIds : apps[a].exists /\ ReviewedAs(apps[a], "rejected")

\* C12: a reject whose comments are missing, empty or blank fails with the 400
\* reason-required error and leaves every application as it was, whether the
\* application exists and whatever its status.
C12_BlankRejectRefused ==
  [][\A a \in ReviewIds, c \in AnyComments :
       (last'.op = "reject" /\ NoReason(c) /\ Reject(a, c, "none"))
         => /\ last'.code = 400 /\ last'.msg = MsgReasonRequired
            /\ apps' = apps]_vars

\* The reason-required error, with an approved application in the store.
C12_Witness ==
  /\ last.op = "reject" /\ last.msg = MsgReasonRequired
  /\ \E a \in AppIds : apps[a].exists /\ apps[a].status = "approved"

\* C13: every application has reviewedBy and reviewedAt unset while it is
\* pending, and an assignedRoom only while its status is assigned.
C13_ReviewFieldsConsistent ==
  \A a \in AppIds :
    apps[a].exists =>
      /\ apps[a].status = "pending"
           => apps[a].reviewedBy = NoUser /\ ~apps[a].reviewedAt
      /\ apps[a].assignedRoom # NoRoom => apps[a].status = "assigned"

\* A pending application that names a reviewer and a room, right after the
\* submit that created it.
C13_Witness ==
  /\ last.op = "submit" /\ last.code = 201
  /\ \E a \in AppIds : /\ apps[a].exists /\ apps[a].status = "pending"
                        /\ apps[a].reviewedBy = AdminId /\ apps[a].assignedRoom # NoRoom

\* C14: the application a successful submit creates has status pending,
\* whatever the body carries.
C14_CreatedPending ==
  [][\A s \in Applicants, sem \in Semesters, body \in Bodies :
       (Submit(s, sem, body, TRUE) /\ last'.code = 201)
         => apps'[nextApp].exists /\ apps'[nextApp].status = "pending"]_vars

\* A record that is approved right after the submit that created it.
C14_Witness ==
  /\ last.op = "submit" /\ last.code = 201
  /\ nextApp > 1 /\ apps[nextApp - 1].exists /\ apps[nextApp - 1].status = "approved"

\* C15: once an application is rejected its status never changes again, as
\* long as the record exists.
C15_RejectedIsTerminal ==
  [][\A a \in AppIds :
       (apps[a].exists /\ apps[a].status = "rejected" /\ apps'[a].exists)
         => apps'[a].status = "rejected"]_vars

\* An application that carries a rejection reason and has status assigned,
\* right after a successful assignment.
C15_Witness ==
  /\ last.op = "assign" /\ last.code = 200
  /\ \E a \in AppIds : /\ apps[a].exists /\ apps[a].status = "assigned"
                        /\ apps[a].reviewComments.given
                        /\ apps[a].reviewComments.text # <<>>

\* C16: a successful remove-student for student s and room r turns every
\* application of s whose assignedRoom was r to status approved without an
\* assignedRoom, and leaves every other application as it was.
C16_RemoveResetsApplications ==
  [][\A s \in Students, r \in RoomIds :
       (last'.op = "remove" /\ last'.code = 200 /\ RemoveStudent(s, r, "none"))
         => \A a \in AppIds :
              IF apps[a].exists /\ apps[a].student = s /\ apps[a].assignedRoom = r
              THEN apps'[a] = [apps[a] EXCEPT !.status = "approved",
                                              !.assignedRoom = NoRoom]
              ELSE apps'[a] = apps[a]]_vars

\* After a successful removal: an application of the removed student reset to
\* approved, and another student's application still pointing at a room.
C16_Witness ==
  /\ last.op = "remove" /\ last.code = 200
  /\ \E a, b \in AppIds :
       /\ apps[a].exists /\ apps[a].student = "s1"
       /\ apps[a].status = "approved" /\ apps[a].assignedRoom = NoRoom
       /\ apps[b].exists /\ apps[b].student = "s2" /\ apps[b].assignedRoom = "r1"

\* C17: a remove-student request that names an existing room and a student who
\* is not among its occupants fails with the student-not-in-room error and
\* leaves every room, user and application as it was.
C17_AbsentStudentRefused ==
  [][\A s \in Students \cup {GhostUser}, r \in RoomIds :
       (last'.op = "remove" /\ RoomExists(r) /\ Occurrences(r, s) = 0
          /\ RemoveStudent(s, r, "none"))
         => /\ last'.code = 500 /\ last'.msg = MsgNotInRoom
            /\ UNCHANGED <<rooms, users, apps>>]_vars

\* The not-in-room error in a store where some student holds a room.
C17_Witness ==
  /\ last.op = "remove" /\ last.msg = MsgNotInRoom
  /\ \E s \in Students : users[s].roomAssigned # NoRoom

\* The first position of student s in the occupant list occ.
FirstOf(occ, s) ==
  CHOOSE i \in 1..Len(occ) : occ[i].student = s /\ \A k \in 1..(i - 1) : occ[k].student # s

\* C18: a successful Room.removeStudent(s) removes one occupant record, that of
\* s, decreases occupiedBeds by 1, keeps the other occupants in their order and
\* numbers them 1..n in that order.
C18_RemoveRenumbers ==
  [][\A r \in RoomIds, s \in Students :
       (CallRemoveStudent(r, s) /\ last'.code = 200)
         => LET old == rooms[r].occupants
                new == rooms'[r].occupants
                i == FirstOf(old, s)
            IN /\ Len(new) = Len(old) - 1
               /\ rooms'[r].occupiedBeds = rooms[r].occupiedBeds - 1
               /\ \A j \in 1..Len(new) :
                    /\ new[j].student = (IF j < i THEN old[j] ELSE old[j + 1]).student
                    /\ new[j].bedNumber = j]_vars

\* Two occupants, s2 and s3, left in room r1 by a successful release.
C18_Witness ==
  /\ last.op = "removeStudent" /\ last.code = 200
  /\ Len(Occupants("r1")) = 2 /\ rooms["r1"].occupiedBeds = 2
  /\ Occupants("r1")[1].student = "s2" /\ Occupants("r1")[2].student = "s3"

\* C19: a room-delete request on a room with occupiedBeds > 0 fails with 400
\* and leaves the room; a hostel-delete request on a hostel with an occupied
\* room fails with 400 and deletes neither the hostel nor a room; and no user's
\* roomAssigned points at a deleted room.
C19_NoDeleteWhileOccupied ==
  [][/\ \A r \in RoomIds, f \in {"none", "room"} :
          (RoomExists(r) /\ rooms[r].occupiedBeds > 0 /\ DeleteRoom(r, f))
            => last'.code = 400 /\ rooms' = rooms
     /\ \A h \in HostelIds, f \in {"none", "room", "hostel"} :
          (hostels[h].exists /\ OccupiedRooms(h) > 0 /\ DeleteHostel(h, f))
            => last'.code = 400 /\ rooms' = rooms /\ hostels' = hostels
     /\ \A u \in Students :
          users'[u].roomAssigned # NoRoom => rooms'[users'[u].roomAssigned].exists]_vars

\* A user whose roomAssigned names a room that a delete request has removed.
C19_Witness ==
  /\ last.op \in {"deleteRoom", "deleteHostel"}
  /\ \E u \in Students :
       users[u].roomAssigned # NoRoom /\ ~rooms[users[u].roomAssigned].exists

\* C20: an update or delete request by a student on another student's
\* application fails with 403, and on the student's own application that is not
\* pending with 400, both leaving every record as it was; a delete request by
\* the admin removes the application whatever its status.
C20_StudentWritesOwnPending ==
  [][\A c \in ReviewCallers, a \in ReviewIds :
       /\ (/\ AppExists(a) /\ c.role = "student"
           /\ \/ /\ last'.op = "update"
                 /\ \E body \in UpdateBodies, valid \in BOOLEAN :
                      UpdateApplication(c, a, body, valid)
              \/ last'.op = "deleteApp" /\ DeleteApplication(c, a, "none"))
            => /\ apps[a].student # c.id => last'.code = 403 /\ apps' = apps
               /\ (apps[a].student = c.id /\ apps[a].status # "pending")
                    => last'.code = 400 /\ apps' = apps
       /\ (/\ last'.op = "deleteApp" /\ AppExists(a) /\ c.role = "admin"
           /\ DeleteApplication(c, a, "none"))
            => last'.code = 200 /\ ~apps'[a].exists]_vars

\* Access denied to a student, with a reviewed application in the store.
C20_Witness ==
  /\ last.op \in {"update", "deleteApp"} /\ last.code = 403
  /\ \E a \in AppIds : apps[a].exists /\ apps[a].status # "pending"

\* Every occupant of room r that is a registered student has the room's gender.
GenderConsistent(r) ==
  \A i \in 1..Len(Occupants(r)) :
     UserExists(Occupants(r)[i].student)
       => users[Occupants(r)[i].student].gender = rooms[r].gender

\* C21: in every state reached through assignment, remove-student, room update
\* and profile update requests, every occupant of every room has the gender of
\* the room.
C21_OccupantsHaveRoomGender ==
  \A r \in RoomIds : rooms[r].exists => GenderConsistent(r)

\* Right after a room update: a room for women with a man among its occupants.
C21_Witness ==
  /\ last.op = "updateRoom" /\ last.code = 200
  /\ \E r \in RoomIds : /\ rooms[r].exists /\ rooms[r].gender = "female"
                         /\ Len(Occupants(r)) > 0 /\ ~GenderConsistent(r)

\* The ledger of room r: its occupants list and its counter.
Ledger(rs, r) == <<rs[r].occupants, rs[r].occupiedBeds>>

\* C22: a room is created with no occupants and occupiedBeds 0, and the
\* occupants list and the counter of a room change only in a successful assign
\* or remove-student: a room create and a room update never set or alter them.
C22_LedgerMovesOnlyByAssignRemove ==
  [][\A r \in RoomIds :
       /\ (~rooms[r].exists /\ rooms'[r].exists)
            => Ledger(rooms', r) = <<(<<>>), 0>>
       /\ (rooms[r].exists /\ Ledger(rooms', r) # Ledger(rooms, r))
            => last'.op \in {"assign", "remove"} /\ last'.code = 200]_vars

\* Right after a create request: a new room whose counter is not 0.
C22_Witness ==
  /\ last.op = "createRoom" /\ last.code = 201
  /\ rooms["r2"].exists /\ rooms["r2"].occupiedBeds > 0

\* 0 <= occupiedBeds <= capacity in room r.
WithinCapacity(rs, r) == 0 <= rs[r].occupiedBeds /\ rs[r].occupiedBeds <= rs[r].capacity

\* C24: a room update preserves 0 <= occupiedBeds <= capacity: it leaves no
\* room with a capacity below its number of occupants.
C24_UpdateKeepsCapacityBound ==
  [][\A r \in RoomIds :
       (last'.op = "updateRoom" /\ rooms[r].exists /\ WithinCapacity(rooms, r))
         => WithinCapacity(rooms', r)]_vars

\* Right after a room update: a room with more occupants than beds.
C24_Witness ==
  /\ last.op = "updateRoom" /\ last.code = 200
  /\ \E r \in RoomIds : /\ rooms[r].exists
                         /\ rooms[r].occupiedBeds > rooms[r].capacity
                         /\ Len(Occupants(r)) > rooms[r].capacity

\* The review fields of the record in slot a.
ReviewFields(as, a) == <<as[a].reviewedBy, as[a].reviewedAt, as[a].reviewComments>>

\* C23: reviewedBy, reviewedAt and reviewComments of an application change
\* only in a successful approve or reject: submit, update, assignment and
\* remove-student never set or alter any of the three.
C23_ReviewFieldsMoveOnlyByReview ==
  [][\A a \in AppIds :
       (apps'[a].exists /\ ReviewFields(apps', a) # ReviewFields(apps, a))
         => last'.op \in {"approve", "reject"} /\ last'.code = 200]_vars

\* Right after an update: a pending application that nobody reviewed, with
\* review comments.
C23_Witness ==
  /\ last.op = "update" /\ last.code = 200
  /\ \E a \in AppIds : /\ apps[a].exists /\ apps[a].status = "pending"
                        /\ apps[a].reviewedBy = NoUser
                        /\ apps[a].reviewComments = Text(<<"x">>)

\* The records with the key (s, model year, sem).
RecordsOf(s, sem) ==
  {a \in AppIds : apps[a].exists /\ apps[a].student = s /\ apps[a].semester = sem}

\* C25: in every interleaving of two submits of one student for one (year,
\* semester) at most one record is created for the key; a request that passed
\* the findOne pre-check and whose insert meets a record with its key is
\* answered 400 with the duplicate-application message, never 500, and adds
\* no record.
C25_ConcurrentSubmitOneRecord ==
  /\ [](\A s \in Applicants, sem \in Semesters : Cardinality(RecordsOf(s, sem)) <= 1)
  /\ [](\A p \in Procs : procs[p].code # 500)
  /\ [][\A p \in Procs :
          (/\ procs[p].pc = "save" /\ procs'[p].pc # "save"
           /\ RecordsOf(procs[p].student, procs[p].semester) # {}
           /\ last'.msg # MsgValidation)
            => /\ procs'[p].code = 400 /\ last'.msg = MsgDuplicateApplication
               /\ apps' = apps]_vars

\* Both requests carried the same key and passed the pre-check; one created
\* the record and the other was refused by the index.
C25_Witness ==
  /\ \A p \in Procs : procs[p].pc = "done" /\ procs[p].precheck
  /\ procs["p1"].student = procs["p2"].student
  /\ procs["p1"].semester = procs["p2"].semester
  /\ {procs["p1"].code, procs["p2"].code} = {201, 400}
  /\ last.code = 400 /\ last.msg = MsgDuplicateApplication
  /\ Cardinality(RecordsOf(procs["p1"].student, procs["p1"].semester)) = 1

\* The interleaved review requests on application a that were answered 200.
Succeeded(a) ==
  {p \in Procs : procs[p].pc = "done" /\ procs[p].code = 200 /\ procs[p].app = a
                 /\ procs[p].kind \in ReviewKinds}

\* The status a review of the given kind writes.
StatusOf(kind) == IF kind = "approve" THEN "approved" ELSE "rejected"

\* C26: of the interleaved approve and reject requests on one pending
\* application at most one is answered with success, and the stored status and
\* reviewedBy are the ones that request wrote.
C26_OneReviewWins ==
  \A a \in AppIds :
     /\ Cardinality(Succeeded(a)) <= 1
     /\ \A p \in Succeeded(a) : /\ apps[a].status = StatusOf(procs[p].kind)
                                /\ apps[a].reviewedBy = procs[p].caller

\* An approve and a reject of the same application by two admins, both
\* answered 200.
C26_Witness ==
  /\ \A p \in Procs : procs[p].pc = "done" /\ procs[p].code = 200 /\ procs[p].app = 1
  /\ procs["p1"].kind = "approve" /\ procs["p2"].kind = "reject"
  /\ procs["p1"].caller # procs["p2"].caller
  /\ apps[1].exists

\* The rooms whose occupants list names student s.
RoomsHolding(s) == {r \in RoomIds : rooms[r].exists /\ Occurrences(r, s) > 0}

\* C27: when the two interleaved assignment requests have been answered, a
\* student is in the occupants list of at most one room, and that room is the
\* one the student's roomAssigned points at.
C27_OneRoomPerStudent ==
  (\A p \in Procs : procs[p].pc = "done")
    => \A s \in Students : /\ Cardinality(RoomsHolding(s)) <= 1
                          /\ \A r \in RoomsHolding(s) : users[s].roomAssigned = r

\* Two requests for the same student and two different rooms, both answered
\* 200: the student is an occupant of both rooms.
C27_Witness ==
  /\ \A p \in Procs : procs[p].pc = "done" /\ procs[p].code = 200
  /\ procs["p1"].student = procs["p2"].student
  /\ procs["p1"].room # procs["p2"].room
  /\ RoomsHolding(procs["p1"].student) = RoomIds

\* C28: every application with status assigned and assignedRoom = r belongs to
\* a student who is in the occupants list of r and whose roomAssigned is r.
C28_AssignedApplicationMatchesLedger ==
  \A a \in AppIds :
     (apps[a].exists /\ apps[a].status = "assigned")
       => /\ apps[a].assignedRoom \in RoomIds
          /\ Occurrences(apps[a].assignedRoom, apps[a].student) > 0
          /\ users[apps[a].student].roomAssigned = apps[a].assignedRoom

\* Right after an assignment: an assigned application whose student holds no
\* room.
C28_Witness ==
  /\ last.op = "assign" /\ last.code = 200
  /\ \E a \in AppIds : /\ apps[a].exists /\ apps[a].status = "assigned"
                        /\ Unassigned(users[apps[a].student])
                        /\ RoomsHolding(apps[a].student) = {}

\* C29: every application with status approved or rejected has reviewedBy and
\* reviewedAt set.
C29_DecidedWasReviewed ==
  \A a \in AppIds :
     (apps[a].exists /\ apps[a].status \in {"approved", "rejected"})
       => apps[a].reviewedBy # NoUser /\ apps[a].reviewedAt

\* Right after a removal: an approved application that nobody reviewed.
C29_Witness ==
  /\ last.op = "remove" /\ last.code = 200
  /\ \E a \in AppIds : /\ apps[a].exists /\ apps[a].status = "approved"
                        /\ apps[a].reviewedBy = NoUser /\ ~apps[a].reviewedAt

\* The bed numbers of room r are 1..occupiedBeds, in the order of the list.
BedsNumbered(r) ==
  /\ Len(Occupants(r)) = rooms[r].occupiedBeds
  /\ \A i \in 1..Len(Occupants(r)) : Occupants(r)[i].bedNumber = i

\* C30: on a room whose beds are numbered 1..occupiedBeds and that does not
\* hold s, a successful assignStudent(s) followed at once by removeStudent(s)
\* succeeds and restores occupiedBeds and the ordered (student, bedNumber)
\* pairs of the occupants.
C30_AssignThenRemoveRestores ==
  [][\A r \in RoomIds, s \in Students :
       (/\ last'.op = "assignThenRemove"
        /\ BedsNumbered(r) /\ Occurrences(r, s) = 0 /\ isAvailable(rooms[r])
        /\ CallAssignThenRemove(r, s))
         => /\ last'.code = 200
            /\ rooms'[r].occupiedBeds = rooms[r].occupiedBeds
            /\ rooms'[r].occupants = rooms[r].occupants]_vars

\* Right after a successful round trip, which room r2, being full, cannot
\* have taken: room r1 holds two students on beds 1 and 2 and has a free bed.
C30_Witness ==
  /\ last.op = "assignThenRemove" /\ last.code = 200
  /\ ~isAvailable(rooms["r2"])
  /\ Len(Occupants("r1")) = 2 /\ BedsNumbered("r1") /\ isAvailable(rooms["r1"])

====
